---- MODULE Spec2Model ----
(***************************************************************************)
(* Typed streaming query pipeline and adaptive sampler of devodsconnector.*)
(* Reader (devodsconnector/reader.py) and the older API class (api.py)    *)
(* are modelled side by side; cls says which class the call is made on.   *)
(* The remote service is the environment: every response it gives is a    *)
(* nondeterministic choice made when the code reads it.                    *)
(***************************************************************************)
EXTENDS Integers, Sequences, FiniteSets, TLC

VARIABLES cls, call, pc, err, sent, qs, got, result, rs, fp, ps

vars == <<cls, call, pc, err, sent, qs, got, result, rs, fp, ps>>

(***************************************************************************)
(* Bounds of the model.                                                    *)
(***************************************************************************)
\* data lines the service returns after the header of one result stream
MaxLines == 3
\* sample attempts of one randomSample call that the model follows
MaxAttempts == 2
\* largest population size explored by the stand-alone search for p
MaxN == 5
\* resolution of the fixed-point representation of p (p = units / PScale)
PScale == 6000

(***************************************************************************)
(* Python values.                                                          *)
(***************************************************************************)
\* stop = None (continuous query); times are integer epoch seconds >= 0
NoneTime == -1
\* limit = None
NoLimit == 0

PyNone == [t |-> "none", s |-> ""]
PyStr(v) == [t |-> "str", s |-> v]
PyInt(v) == [t |-> "int", s |-> v]
PyFloat(v) == [t |-> "float", s |-> v]
PyBool(b) == [t |-> "bool", s |-> IF b THEN "True" ELSE "False"]
\* a converter that raised (int('x'), strptime on a non-date)
ConvError == [t |-> "error", s |-> ""]

\* decimal literals int() accepts, among the cells the service sends
IntLits == {"0", "1", "2", "3"}
IntOf(v) == CASE v = "0" -> 0 [] v = "1" -> 1 [] v = "2" -> 2 [] v = "3" -> 3

Min(a, b) == IF a <= b THEN a ELSE b
Range(s) == {s[i] : i \in DOMAIN s}

(***************************************************************************)
(* _to_unix: integer epochs are returned as they are, None stays None.     *)
(***************************************************************************)
_to_unix(date) == IF date = NoneTime THEN NoneTime ELSE date

(***************************************************************************)
(* _make_type_map / _null_decorator.  A converter is named by the Python   *)
(* function it wraps; "rawstr" is the undecorated str that api.py uses as  *)
(* the defaultdict's default.                                              *)
(***************************************************************************)
KnownTags == {"timestamp", "str", "int8", "int4", "float8", "float4", "bool"}

funcs(tag) ==
    CASE tag = "timestamp" -> "ts_func"
      [] tag = "str" -> "str"
      [] tag \in {"int8", "int4"} -> "int"
      [] tag \in {"float8", "float4"} -> "float"
      [] tag = "bool" -> "bool"

\* the function f itself, applied to a non-empty or empty cell
ApplyRaw(f, v) ==
    CASE f = "str" -> PyStr(v)
      [] f = "int" -> IF v \in IntLits THEN PyInt(v) ELSE ConvError
      [] f = "float" -> IF v \in IntLits THEN PyFloat(v) ELSE ConvError
      [] f = "bool" -> PyBool(v = "true")
      [] f = "ts_func" -> ConvError

\* null_f of _null_decorator(f)
_null_decorator(f, v) == IF v = "" THEN PyNone ELSE ApplyRaw(f, v)

\* a converter of the type map: [f |-> function, null |-> decorated or not]
Converter(f, decorated) == [f |-> f, null |-> decorated]

\* the defaultdict's default_factory value
DefaultConverter(c) ==
    IF c = "Reader" THEN Converter("str", TRUE) ELSE Converter("str", FALSE)

_make_type_map(c, tag) ==
    IF tag \in KnownTags THEN Converter(funcs(tag), TRUE) ELSE DefaultConverter(c)

Apply(conv, v) == IF conv.null THEN _null_decorator(conv.f, v) ELSE ApplyRaw(conv.f, v)

(***************************************************************************)
(* Query text: the sequence of the pieces the code concatenates.           *)
(***************************************************************************)
NoText == [base |-> "", group_by |-> "", count |-> FALSE, where |-> "", p |-> 0,
           literal |-> << >>]
\* the caller's linq_query
LinqQuery == [NoText EXCEPT !.base = "q"]
\* f'{linq_query} group select count() as count'
size_query(text) == [text EXCEPT !.count = TRUE]
\* f'{linq_query} where simplify(float8(rand())) < {p}'
sample_query(text, p) == [text EXCEPT !.where = "rand", !.p = p]
\* f'{query} group by {column}'
population_query(text, column) == [text EXCEPT !.group_by = column]
\* f'{query} where str({column}) in {{{sample_set}}}'
in_query(text, sample_set) == [text EXCEPT !.where = "in", !.literal = sample_set]
IsCount(text) == text.count

(***************************************************************************)
(* Text of group values.  A string is the sequence of its characters where *)
(* it is embedded in query text.                                           *)
(***************************************************************************)
Quote == "\""
\* a group value that contains the quote character: a","b
QuotedCell == "a\",\"b"

Chars(str) ==
    CASE str = "a" -> <<"a">>
      [] str = "b" -> <<"b">>
      [] str = "1" -> <<"1">>
      [] str = "nan" -> <<"n", "a", "n">>
      [] str = QuotedCell -> <<"a", Quote, ",", Quote, "b">>
      [] str = "" -> << >>

\* str(x) of a value of a table column
format(v) ==
    CASE v.t = "nan" -> Chars("nan")
      [] v.t = "float" -> Chars(v.s) \o <<".", "0">>
      [] OTHER -> Chars(v.s)

\* ','.join(f'"{x}"' for x in population)
RECURSIVE join(_)
join(population) ==
    IF population = << >> THEN << >>
    ELSE IF Len(population) = 1 THEN <<Quote>> \o format(population[1]) \o <<Quote>>
    ELSE <<Quote>> \o format(population[1]) \o <<Quote, ",">> \o join(Tail(population))

\* the set literal as the service reads it: items between quote characters,
\* separated by commas; Malformed when the text is not of that form
Malformed == {<<"?">>}

FirstQuoteFrom(chars, i) ==
    IF \E j \in i..Len(chars) : chars[j] = Quote
    THEN CHOOSE j \in i..Len(chars) :
            chars[j] = Quote /\ \A m \in i..(j - 1) : chars[m] # Quote
    ELSE 0

RECURSIVE ItemsFrom(_, _)
ItemsFrom(chars, i) ==
    IF i > Len(chars) \/ chars[i] # Quote THEN Malformed
    ELSE LET j == FirstQuoteFrom(chars, i + 1)
         IN IF j = 0 THEN Malformed
            ELSE IF j = Len(chars) THEN {SubSeq(chars, i + 1, j - 1)}
            ELSE IF chars[j + 1] # "," THEN Malformed
            ELSE LET rest == ItemsFrom(chars, j + 2)
                 IN IF rest = Malformed THEN Malformed
                    ELSE {SubSeq(chars, i + 1, j - 1)} \cup rest

LiteralSet(chars) == IF chars = << >> THEN {} ELSE ItemsFrom(chars, 1)

(***************************************************************************)
(* _query: the request one Query Executor call sends.  api.py forces        *)
(* streaming for a continuous query, reader.py passes the flag on.         *)
(***************************************************************************)
_query(c, text, start, stop, mode, stream, limit) ==
    [query |-> text,
     from |-> _to_unix(start),
     to |-> _to_unix(stop),
     mode |-> mode,
     stream |-> IF c = "API" /\ stop = NoneTime THEN TRUE ELSE stream,
     limit |-> limit]

\* the probe request of _get_types
ProbeRequest_openEnded(c, text, start) ==
    _query(c, text, start, NoneTime, "json/compact", FALSE, 1)

ProbeRequest(c, text, start) ==
    IF c = "Reader"
    THEN LET stop == _to_unix(start)
         IN _query(c, text, stop - 1, stop, "json/compact", FALSE, 1)
    ELSE LET st == _to_unix(start)
         IN _query(c, text, st, st + 1, "json/compact", FALSE, 1)

\* the main request of _stream
MainRequest(c, text, start, stop) == _query(c, text, start, stop, "csv", TRUE, NoLimit)

(***************************************************************************)
(* The service.                                                            *)
(***************************************************************************)
Statuses == {0, 400, 500}
ProbeTags == {"int8", "str", "ip4"}
ColNames(text) == IF IsCount(text) THEN {"count"} ELSE {"a", "b"}

\* the column metadata data['object']['m'] of a probe response
Schemas(text) ==
    UNION {[S -> ProbeTags] : S \in (SUBSET ColNames(text)) \ {{}}}

ProbeResponses(text) ==
    {[kind |-> "transport", status |-> 0, m |-> << >>],
     [kind |-> "text", status |-> 0, m |-> << >>]}
    \cup {[kind |-> "json", status |-> s, m |-> m] :
            s \in Statuses, m \in Schemas(text)}

\* header lines of the csv result
Headers(text) ==
    IF IsCount(text) THEN {<<"count">>}
    ELSE {<<"a">>, <<"b">>, <<"a", "b">>, <<"b", "a">>, <<"a", "a">>, <<"b", "b">>}

\* what csv.reader makes of the text of an error envelope
EnvelopeCols == {<<"{">>, <<"{", "}">>}

\* the first line of the main result stream: a csv header, or a JSON
\* document carrying a status
FirstLines(text) ==
    {[json |-> FALSE, status |-> 0, cols |-> h] : h \in Headers(text)}
    \cup {[json |-> TRUE, status |-> s, cols |-> e] :
            s \in Statuses, e \in EnvelopeCols}

\* the values of a grouping column
GroupCells == {"a", "b", QuotedCell, "", "nan"}

\* the data lines, each already split into its cells by csv.reader.  A
\* query with a membership predicate returns only rows whose grouping
\* column is one of the items of its set literal.
DataLines(text) ==
    IF IsCount(text)
    THEN {<<"0">>, <<"1">>, <<"2">>, <<"3">>, <<"">>, <<"x">>}
    ELSE IF text.where = "in"
    THEN {<<c>> : c \in {g \in GroupCells : Chars(g) \in LiteralSet(text.literal)}}
    ELSE IF text.group_by # ""
    THEN {<<c>> : c \in GroupCells}
    ELSE {<<"1">>, <<"">>, <<"x", "1">>, <<"1", "">>}

(***************************************************************************)
(* check_status of devodsconnector/error_checking.py: raises an error that *)
(* is not a ValueError when the parsed document carries a failure status.  *)
(***************************************************************************)
check_status(status) == status # 0

(***************************************************************************)
(* The state of one query() call: its arguments, the generator chain       *)
(* _stream/_decode_results/csv.reader and what has gone through it.        *)
(***************************************************************************)
NoTypes == [c \in {} |-> Converter("str", TRUE)]
NoDF == [columns |-> << >>, index |-> << >>, data |-> << >>]
\* no probe response read yet
NoProbe == [kind |-> "none", status |-> 0, m |-> << >>]
\* no first line read yet
NoLine == [json |-> FALSE, status |-> 0, cols |-> << >>]

NoQuery ==
    [text |-> NoText, start |-> 0, stop |-> 0, output |-> "", who |-> "",
     probe |-> NoProbe, type_dict |-> NoTypes, cols |-> << >>, lines |-> << >>, rows |-> << >>,
     first |-> NoLine, pulled |-> 0, df |-> NoDF, base |-> 0]

valid_outputs == {"dict", "list", "namedtuple", "dataframe"}

\* the two checks at the head of query(); "" when the call goes on
QueryValidation_anyOutput(output, stop) ==
    IF output = "dataframe" /\ stop = NoneTime THEN "ValidationError" ELSE ""

QueryValidation_anyRange(output, stop) ==
    IF output \notin valid_outputs THEN "ValidationError" ELSE ""

QueryValidation(output, stop) ==
    IF output \notin valid_outputs THEN "ValidationError"
    ELSE IF output = "dataframe" /\ stop = NoneTime THEN "ValidationError"
    ELSE ""

\* query(): validate, then create the _stream generator and call next() on it
query(text, start, stop, output, who) ==
    LET e == QueryValidation(output, stop)
    IN IF e # ""
       THEN /\ pc' = "raised"
            /\ err' = e
            /\ qs' = [NoQuery EXCEPT !.text = text, !.start = start, !.stop = stop,
                                     !.output = output, !.who = who,
                                     !.base = Len(sent)]
       ELSE /\ pc' = "get_types"
            /\ err' = err
            /\ qs' = [NoQuery EXCEPT !.text = text, !.start = start, !.stop = stop,
                                     !.output = output, !.who = who,
                                     !.base = Len(sent)]

\* an exception leaves the call: nothing of the classes catches it
Raise_retry(e) == pc' = "rs_attempt" /\ err' = e

Raise(e) == pc' = "raised" /\ err' = e

(***************************************************************************)
(* _get_types: send the probe, parse the response, build type_dict.        *)
(***************************************************************************)
\* the error _get_types ends with on a response, "" if none
ProbeError_anyStatus(c, resp) ==
    CASE resp.kind = "transport" -> "TransportError"
      [] resp.kind = "text" -> "SchemaError"
      [] resp.kind = "json" -> ""

ProbeError(c, resp) ==
    CASE resp.kind = "transport" -> "TransportError"
      [] resp.kind = "text" -> "SchemaError"
      [] resp.kind = "json" ->
            IF c = "Reader"
            THEN IF check_status(resp.status) THEN "SchemaError" ELSE ""
            ELSE IF resp.status # 0 THEN "SchemaError" ELSE ""

TypeDict(c, m) == [col \in DOMAIN m |-> _make_type_map(c, m[col])]

_get_types ==
    /\ pc = "get_types"
    /\ \E resp \in ProbeResponses(qs.text) :
          /\ sent' = Append(sent, ProbeRequest(cls, qs.text, qs.start))
          /\ IF ProbeError(cls, resp) # ""
             THEN Raise(ProbeError(cls, resp)) /\ qs' = [qs EXCEPT !.probe = resp]
             ELSE /\ pc' = "send_main"
                  /\ err' = err
                  /\ qs' = [qs EXCEPT !.probe = resp,
                                      !.type_dict = TypeDict(cls, resp.m)]
    /\ UNCHANGED <<cls, call, got, result, rs, fp, ps>>

(***************************************************************************)
(* _stream, line 97: the main request.                                     *)
(***************************************************************************)
SendMain_resend ==
    /\ pc = "send_main"
    /\ sent' = Append(Append(sent, MainRequest(cls, qs.text, qs.start, qs.stop)),
                      MainRequest(cls, qs.text, qs.start, qs.stop))
    /\ \/ Raise("TransportError")
       \/ pc' = "decode" /\ err' = err
    /\ UNCHANGED <<cls, call, qs, got, result, rs, fp, ps>>

SendMain ==
    /\ pc = "send_main"
    /\ sent' = Append(sent, MainRequest(cls, qs.text, qs.start, qs.stop))
    /\ \/ Raise("TransportError")
       \/ pc' = "decode" /\ err' = err
    /\ UNCHANGED <<cls, call, qs, got, result, rs, fp, ps>>

(***************************************************************************)
(* _decode_results on the first line, then the header check of _stream,    *)
(* up to `yield cols`, which hands control back to query().                *)
(***************************************************************************)
\* whether _decode_results raises on the first line
FirstLineFails(c, first) ==
    IF c = "Reader"
    THEN first.json /\ check_status(first.status)
    ELSE first.json /\ first.status = 500

\* len(cols) != len(type_dict)
HeaderMismatch_distinct(cols, type_dict) ==
    Cardinality(Range(cols)) # Cardinality(DOMAIN type_dict)

HeaderMismatch(cols, type_dict) == Len(cols) # Cardinality(DOMAIN type_dict)

HeaderError(c, first, type_dict) ==
    IF FirstLineFails(c, first) THEN "QueryError"
    ELSE IF HeaderMismatch(first.cols, type_dict) THEN "SchemaMismatchError"
    ELSE IF \E i \in DOMAIN first.cols : first.cols[i] \notin DOMAIN type_dict
         THEN "KeyError"
    ELSE ""

\* the _to_<output> methods the class defines, looked up by getattr
Projectors == {"list", "dict", "namedtuple", "dataframe"}

\* where query() goes once _stream has yielded the header
AfterHeader_eager(q) == "to_dataframe"

AfterHeader(q) == IF q.output = "dataframe" THEN "to_dataframe" ELSE q.who

DecodeFirst ==
    /\ pc = "decode"
    /\ \/ Raise("RuntimeError") /\ UNCHANGED qs      \* the stream has no line at all
       \/ \E first \in FirstLines(qs.text) :
             IF HeaderError(cls, first, qs.type_dict) # ""
             THEN /\ Raise(HeaderError(cls, first, qs.type_dict))
                  /\ qs' = [qs EXCEPT !.first = first, !.pulled = 1]
             ELSE /\ IF qs.output \in Projectors
                     THEN pc' = AfterHeader(qs) /\ err' = err
                     ELSE Raise("AttributeError")
                  /\ qs' = [qs EXCEPT !.first = first, !.cols = first.cols,
                                      !.pulled = 1]
    /\ UNCHANGED <<cls, call, sent, got, result, rs, fp, ps>>

(***************************************************************************)
(* _stream, lines 110-111: one data line becomes one Row.                  *)
(***************************************************************************)
\* [t(v) for t, v in zip(type_list, row)]
StreamRow(cols, type_dict, line) ==
    [i \in 1..Min(Len(cols), Len(line)) |-> Apply(type_dict[cols[i]], line[i])]

RowFails(row) == \E i \in DOMAIN row : row[i] = ConvError

\* the lines the service may still send on the current stream
MoreLines(q) == IF Len(q.lines) < MaxLines THEN DataLines(q.text) ELSE {}

(***************************************************************************)
(* The Output Projector: _to_list, _to_dict, _to_namedtuple.               *)
(***************************************************************************)
HasDuplicates(cols) == Cardinality(Range(cols)) # Len(cols)

_to_list(cols, row) == row

\* {c: v for c, v in zip(cols, row)}: a later duplicate name wins
_to_dict(cols, row) ==
    LET n == Min(Len(cols), Len(row))
    IN [c \in {cols[i] : i \in 1..n} |->
            row[CHOOSE i \in 1..n :
                    cols[i] = c /\ \A j \in 1..n : cols[j] = c => j <= i]]

_to_namedtuple(cols, row) == [fields |-> cols, values |-> row]

Project(output, cols, row) ==
    CASE output = "list" -> [shape |-> "list", v |-> _to_list(cols, row)]
      [] output = "dict" -> [shape |-> "dict", v |-> _to_dict(cols, row)]
      [] output = "namedtuple" -> [shape |-> "namedtuple", v |-> _to_namedtuple(cols, row)]

\* the error one next() on the projected generator ends with, "" if none
ProjectError(output, cols, row) ==
    IF output = "namedtuple" /\ Len(row) # Len(cols) THEN "TypeError" ELSE ""

(***************************************************************************)
(* The consumer of a lazy result pulls one item, or finds the stream       *)
(* exhausted.                                                              *)
(***************************************************************************)
Consume ==
    /\ pc = "consume"
    /\ IF qs.output = "namedtuple" /\ HasDuplicates(qs.cols)
       THEN Raise("ValueError") /\ UNCHANGED <<qs, got>>
       ELSE \/ /\ pc' = "returned"
               /\ qs' = [qs EXCEPT !.pulled = @ + 1]
               /\ UNCHANGED <<err, got>>
            \/ \E line \in MoreLines(qs) :
                  LET row == StreamRow(qs.cols, qs.type_dict, line)
                      q1 == [qs EXCEPT !.lines = Append(@, line), !.pulled = @ + 1]
                  IN IF RowFails(row)
                     THEN Raise("ValueError") /\ qs' = q1 /\ got' = got
                     ELSE IF ProjectError(qs.output, qs.cols, row) # ""
                     THEN /\ Raise(ProjectError(qs.output, qs.cols, row))
                          /\ qs' = [q1 EXCEPT !.rows = Append(@, row)]
                          /\ got' = got
                     ELSE /\ qs' = [q1 EXCEPT !.rows = Append(@, row)]
                          /\ got' = Append(got, Project(qs.output, qs.cols, row))
                          /\ UNCHANGED <<pc, err>>
    /\ UNCHANGED <<cls, call, sent, result, rs, fp, ps>>

(***************************************************************************)
(* _to_dataframe: pandas.DataFrame(results, columns=cols).fillna(np.nan).  *)
(* A short row is padded with None up to the longest row; the number of    *)
(* columns of the data must then equal len(cols).                          *)
(***************************************************************************)
PyNaN == [t |-> "nan", s |-> ""]

Widest(rows) ==
    IF rows = << >> THEN 0
    ELSE CHOOSE n \in {Len(rows[i]) : i \in DOMAIN rows} :
            \A j \in DOMAIN rows : Len(rows[j]) <= n

fillna(v) == IF v = PyNone THEN PyNaN ELSE v

DataFrameFails(rows, cols) == rows # << >> /\ Widest(rows) # Len(cols)

_to_dataframe_skip(rows, cols) ==
    [columns |-> cols,
     index |-> [i \in 1..(Len(rows) - 1) |-> i - 1],
     data |-> [i \in 1..(Len(rows) - 1) |->
                 [j \in DOMAIN cols |->
                     IF j <= Len(rows[i + 1]) THEN fillna(rows[i + 1][j]) ELSE PyNaN]]]

_to_dataframe(rows, cols) ==
    [columns |-> cols,
     index |-> [i \in DOMAIN rows |-> i - 1],
     data |-> [i \in DOMAIN rows |->
                 [j \in DOMAIN cols |->
                     IF j <= Len(rows[i]) THEN fillna(rows[i][j]) ELSE PyNaN]]]

ToDataframe ==
    /\ pc = "to_dataframe"
    /\ \/ /\ IF DataFrameFails(qs.rows, qs.cols)
             THEN /\ Raise("ValueError")
                  /\ qs' = [qs EXCEPT !.pulled = @ + 1]
                  /\ result' = result
             ELSE /\ pc' = qs.who
                  /\ err' = err
                  /\ qs' = [qs EXCEPT !.pulled = @ + 1,
                                      !.df = _to_dataframe(qs.rows, qs.cols)]
                  /\ result' = IF qs.who = "returned"
                               THEN _to_dataframe(qs.rows, qs.cols) ELSE result
       \/ \E line \in MoreLines(qs) :
             LET row == StreamRow(qs.cols, qs.type_dict, line)
                 q1 == [qs EXCEPT !.lines = Append(@, line), !.pulled = @ + 1]
             IN /\ IF RowFails(row)
                   THEN Raise("ValueError") /\ qs' = q1
                   ELSE /\ qs' = [q1 EXCEPT !.rows = Append(@, row)]
                        /\ UNCHANGED <<pc, err>>
                /\ result' = result
    /\ UNCHANGED <<cls, call, sent, got, rs, fp, ps>>

(***************************************************************************)
(* _loc_scale and _find_optimal_p.  p is held in fixed point, p = units /  *)
(* PScale, and products are truncated to a unit.  norm.sf(x, loc, scale)   *)
(* > 0.99 is (loc - x) / scale > z with z the 0.99 quantile of the         *)
(* standard normal, z * z = 5.4119; with loc - x > 0 that is               *)
(* (loc - x)^2 > z^2 * scale^2.  Both sides are scaled by 4 * PScale^2.    *)
(* norm.sf is nan when scale is 0, and nan > threshold is False.           *)
(***************************************************************************)
\* z * z for threshold = 0.99, as Z2Num / Z2Den
Z2Int == 5
Z2Num == 4119
Z2Den == 10000

\* scale * scale of _loc_scale(n, p), times PScale^2
ScaleSq(n, p) == n * p * (PScale - p)

\* 2 * PScale * (loc - x) for x = k - 0.5
Excess(n, k, p) == 2 * n * p - (2 * k - 1) * PScale

\* norm.sf(x=k - 0.5, loc=loc, scale=scale) > threshold
TailAbove_inverted(n, k, p) ==
    ~ (IF ScaleSq(n, p) <= 0 THEN FALSE
       ELSE LET D == Excess(n, k, p)
                R == 4 * ScaleSq(n, p)
            IN D > 0 /\ D * D > Z2Int * R + Z2Num * (R \div Z2Den))

TailAbove(n, k, p) ==
    IF ScaleSq(n, p) <= 0 THEN FALSE
    ELSE LET D == Excess(n, k, p)
             R == 4 * ScaleSq(n, p)
         IN D > 0 /\ D * D > Z2Int * R + Z2Num * (R \div Z2Den)

\* p = k / n
InitialP(n, k) == (k * PScale) \div n

\* min(1.001*p, 1)
NextP_uncapped(p) == (1001 * p) \div 1000

NextP(p) == Min((1001 * p) \div 1000, PScale)

EnterFindP(n, k) == [n |-> n, k |-> k, p |-> InitialP(n, k), prev |-> 0]

\* one turn of the while loop that does not break
_find_optimal_p_step ==
    /\ pc = "find_p"
    /\ ~ TailAbove(fp.n, fp.k, fp.p)
    /\ fp' = [fp EXCEPT !.prev = fp.p, !.p = NextP(fp.p)]
    /\ UNCHANGED <<cls, call, pc, err, sent, qs, got, result, rs, ps>>

\* break; return p, and line 277 of randomSample builds sample_query from it
_find_optimal_p_return ==
    /\ pc = "find_p"
    /\ TailAbove(fp.n, fp.k, fp.p)
    /\ pc' = "rs_attempt"
    /\ rs' = [rs EXCEPT !.p = fp.p]
    /\ UNCHANGED <<cls, call, err, sent, qs, got, result, fp, ps>>

(***************************************************************************)
(* randomSample.  sample_size is the rational num / den; an int has        *)
(* den = 1.                                                                *)
(***************************************************************************)
NoRS == [text |-> NoText, table_size |-> PyNone, p |-> 0, warned |-> FALSE,
         attempts |-> 0, df |-> NoDF]

IsNumber(v) == v.t \in {"int", "float"}

\* (sample_size < 1) or (not isinstance(sample_size, int))
InvalidSampleSize(size) == size.num < size.den \/ size.den # 1

\* the check at the head of randomSample: reader.py has it, api.py has none
SampleSizeRejected(c, size) == c = "Reader" /\ InvalidSampleSize(size)

\* where randomSample returns to
ReturnOfSample == IF call.op = "population_sample" THEN "ps_population" ELSE "returned"

\* randomSample up to the creation of the count query's generator
randomSample(text) ==
    IF SampleSizeRejected(cls, call.sample_size)
    THEN Raise("ValidationError") /\ UNCHANGED <<qs, rs>>
    ELSE /\ rs' = [NoRS EXCEPT !.text = text]
         /\ query(size_query(text), call.start, call.stop, "list", "rs_table_size")

CallRandomSample ==
    /\ pc = "call"
    /\ call.op = "randomSample"
    /\ randomSample(LinqQuery)
    /\ UNCHANGED <<cls, call, sent, got, result, fp, ps>>

\* sample_size >= table_size
FullTable_strict(size, n) == size.num > n * size.den

FullTable(size, n) == size.num >= n * size.den

\* p = sample_size/table_size of api.py, in units of 1 / PScale
RatioP(size, n) == (size.num * PScale) \div (size.den * n)

\* table_size = next(r)[0], then the branch on it
TableSize ==
    /\ pc = "rs_table_size"
    /\ \/ /\ Raise("StopIteration")
          /\ qs' = [qs EXCEPT !.pulled = @ + 1]
          /\ UNCHANGED <<rs, fp>>
       \/ \E line \in MoreLines(qs) :
             LET row == StreamRow(qs.cols, qs.type_dict, line)
                 q1 == [qs EXCEPT !.lines = Append(@, line), !.pulled = @ + 1]
                 q2 == [q1 EXCEPT !.rows = Append(@, row)]
                 n == IntOf(row[1].s)
                 r1 == [rs EXCEPT !.table_size = row[1]]
             IN IF RowFails(row)
                THEN Raise("ValueError") /\ qs' = q1 /\ UNCHANGED <<rs, fp>>
                ELSE IF ~ IsNumber(row[1])
                THEN Raise("TypeError") /\ qs' = q2 /\ rs' = r1 /\ fp' = fp
                ELSE IF cls = "API"
                THEN IF n = 0
                     THEN /\ Raise("ZeroDivisionError")
                          /\ qs' = q2 /\ rs' = r1 /\ fp' = fp
                     ELSE /\ pc' = "rs_attempt"
                          /\ rs' = [r1 EXCEPT !.p = RatioP(call.sample_size, n)]
                          /\ qs' = q2
                          /\ UNCHANGED <<err, fp>>
                ELSE IF FullTable(call.sample_size, n)
                THEN /\ rs' = [r1 EXCEPT !.warned = TRUE]
                     /\ query(rs.text, call.start, call.stop, "dataframe",
                              ReturnOfSample)
                     /\ fp' = fp
                ELSE /\ pc' = "find_p"
                     /\ fp' = EnterFindP(n, call.sample_size.num)
                     /\ qs' = q2
                     /\ rs' = r1
                     /\ err' = err
    /\ UNCHANGED <<cls, call, sent, got, result, ps>>

\* the head of the while loop: df = self.query(sample_query, ...)
SampleAttempt ==
    /\ pc = "rs_attempt"
    /\ rs.attempts < MaxAttempts
    /\ rs' = [rs EXCEPT !.attempts = @ + 1]
    /\ query(sample_query(rs.text, rs.p), call.start, call.stop, "dataframe",
             "rs_check")
    /\ UNCHANGED <<cls, call, sent, got, result, fp, ps>>

\* df.sample(k): k distinct rows in a random order, each keeping its label
Selections(n, k) ==
    {sel \in [1..k -> 1..n] : \A i, j \in 1..k : sel[i] = sel[j] => i = j}

sample(df, sel) ==
    [columns |-> df.columns,
     index |-> [i \in DOMAIN sel |-> df.index[sel[i]]],
     data |-> [i \in DOMAIN sel |-> df.data[sel[i]]]]

\* the position in df of the row with the i-th smallest label
Ranked(df, i) ==
    CHOOSE j \in DOMAIN df.index :
        Cardinality({m \in DOMAIN df.index : df.index[m] < df.index[j]}) = i - 1

sort_index(df) ==
    [columns |-> df.columns,
     index |-> [i \in DOMAIN df.index |-> df.index[Ranked(df, i)]],
     data |-> [i \in DOMAIN df.index |-> df.data[Ranked(df, i)]]]

reset_index(df) == [df EXCEPT !.index = [i \in DOMAIN df.index |-> i - 1]]

\* df.shape[0] >= sample_size
Enough_strict(df, size) == Len(df.data) * size.den > size.num

Enough(df, size) == Len(df.data) * size.den >= size.num

\* what the successful attempt returns: reader.py sorts and re-labels the
\* sample, api.py returns it as drawn
Sampled_whole(c, df, k) == {df}

Sampled_asDrawn(c, df, k) == {sample(df, sel) : sel \in Selections(Len(df.data), k)}

Sampled(c, df, k) ==
    IF c = "Reader"
    THEN {reset_index(sort_index(sample(df, sel))) : sel \in Selections(Len(df.data), k)}
    ELSE {sample(df, sel) : sel \in Selections(Len(df.data), k)}

\* pandas refuses a sample size that is negative or not an integer
SampleFails(size) == size.den # 1 \/ size.num < 0

CheckSample ==
    /\ pc = "rs_check"
    /\ IF Enough(qs.df, call.sample_size)
       THEN IF SampleFails(call.sample_size)
            THEN Raise("ValueError") /\ UNCHANGED <<rs, result>>
            ELSE \E df \in Sampled(cls, qs.df, call.sample_size.num) :
                    /\ pc' = ReturnOfSample
                    /\ rs' = [rs EXCEPT !.df = df]
                    /\ result' = IF ReturnOfSample = "returned" THEN df ELSE result
                    /\ err' = err
       ELSE /\ pc' = "rs_attempt"
            /\ UNCHANGED <<err, rs, result>>
    /\ UNCHANGED <<cls, call, sent, qs, got, fp, ps>>

(***************************************************************************)
(* population_sample.                                                      *)
(***************************************************************************)
CallPopulationSample ==
    /\ pc = "call"
    /\ call.op = "population_sample"
    /\ randomSample(population_query(LinqQuery, call.column))
    /\ UNCHANGED <<cls, call, sent, got, result, fp, ps>>

\* the table randomSample returned: the full table or the sample
SampleReturned == IF rs.warned THEN qs.df ELSE rs.df

Positions(cols, column) == {i \in DOMAIN cols : cols[i] = column}

\* df[column], iterated: the values of the column, or, when the name is
\* repeated in the header, the labels of the sub-table's columns
Column(df, column) ==
    IF Cardinality(Positions(df.columns, column)) = 1
    THEN LET j == CHOOSE i \in DOMAIN df.columns : df.columns[i] = column
         IN [i \in DOMAIN df.data |-> df.data[i][j]]
    ELSE [i \in 1..Cardinality(Positions(df.columns, column)) |-> PyStr(column)]

\* lines 334-339: the population, the set literal and the second query
PopulationQuery ==
    /\ pc = "ps_population"
    /\ IF Positions(SampleReturned.columns, call.column) = {}
       THEN Raise("KeyError") /\ UNCHANGED <<qs, ps>>
       ELSE LET population == Column(SampleReturned, call.column)
                sample_set == join(population)
            IN /\ ps' = [population |-> population, sample_set |-> sample_set]
               /\ query(in_query(LinqQuery, sample_set), call.start, call.stop,
                        "dataframe", "returned")
    /\ UNCHANGED <<cls, call, sent, got, result, rs, fp>>

(***************************************************************************)
(* Calls.                                                                  *)
(***************************************************************************)
Classes == {"Reader", "API"}
Outputs == valid_outputs \cup {"table"}
Starts == {5}
Stops == {NoneTime, 9}

NoSize == [num |-> 0, den |-> 1]
NoFP == [n |-> 0, k |-> 0, p |-> 0, prev |-> 0]
NoPS == [population |-> << >>, sample_set |-> << >>]

QueryCalls ==
    {[op |-> "query", output |-> o, start |-> st, stop |-> sp,
      sample_size |-> NoSize, column |-> ""] :
        o \in Outputs, st \in Starts, sp \in Stops}

CallQuery ==
    /\ pc = "call"
    /\ call.op = "query"
    /\ query(LinqQuery, call.start, call.stop, call.output,
             IF call.output = "dataframe" THEN "returned" ELSE "consume")
    /\ UNCHANGED <<cls, call, sent, got, result, rs, fp, ps>>

Init ==
    /\ cls \in Classes
    /\ call \in QueryCalls
    /\ pc = "call"
    /\ err = ""
    /\ sent = << >>
    /\ qs = NoQuery
    /\ got = << >>
    /\ result = NoDF
    /\ rs = NoRS
    /\ fp = NoFP
    /\ ps = NoPS

Next ==
    \/ CallQuery
    \/ _get_types
    \/ SendMain
    \/ DecodeFirst
    \/ Consume
    \/ ToDataframe

Spec == Init /\ [][Next]_vars

(***************************************************************************)
(* randomSample calls.                                                     *)
(***************************************************************************)
SampleSizes ==
    {[num |-> -5, den |-> 1], [num |-> 0, den |-> 1], [num |-> 1, den |-> 1],
     [num |-> 2, den |-> 1], [num |-> 5, den |-> 2]}

SampleCalls ==
    {[op |-> "randomSample", output |-> "", start |-> st, stop |-> sp,
      sample_size |-> size, column |-> ""] :
        st \in Starts, sp \in Stops, size \in SampleSizes}

InitSample ==
    /\ cls \in Classes
    /\ call \in SampleCalls
    /\ pc = "call"
    /\ err = ""
    /\ sent = << >>
    /\ qs = NoQuery
    /\ got = << >>
    /\ result = NoDF
    /\ rs = NoRS
    /\ fp = NoFP
    /\ ps = NoPS

NextSample ==
    \/ CallRandomSample
    \/ _get_types
    \/ SendMain
    \/ DecodeFirst
    \/ ToDataframe
    \/ TableSize
    \/ _find_optimal_p_step
    \/ _find_optimal_p_return
    \/ SampleAttempt
    \/ CheckSample

SpecSample == InitSample /\ [][NextSample]_vars

(***************************************************************************)
(* population_sample calls, on Reader.                                     *)
(***************************************************************************)
PopulationCalls ==
    {[op |-> "population_sample", output |-> "", start |-> st, stop |-> 9,
      sample_size |-> size, column |-> "a"] :
        st \in Starts, size \in SampleSizes}

InitPopulation ==
    /\ cls = "Reader"
    /\ call \in PopulationCalls
    /\ pc = "call"
    /\ err = ""
    /\ sent = << >>
    /\ qs = NoQuery
    /\ got = << >>
    /\ result = NoDF
    /\ rs = NoRS
    /\ fp = NoFP
    /\ ps = NoPS

NextPopulation ==
    \/ CallPopulationSample
    \/ _get_types
    \/ SendMain
    \/ DecodeFirst
    \/ ToDataframe
    \/ TableSize
    \/ _find_optimal_p_step
    \/ _find_optimal_p_return
    \/ SampleAttempt
    \/ CheckSample
    \/ PopulationQuery

SpecPopulation == InitPopulation /\ [][NextPopulation]_vars

(***************************************************************************)
(* _find_optimal_p on its own, for every 1 <= k < n <= MaxN, and for a      *)
(* large table with a target one below its size, where the first step      *)
(* takes p to the cap.                                                     *)
(***************************************************************************)
SearchInputs ==
    {nk \in (2..MaxN) \X (1..MaxN) : nk[2] < nk[1]} \cup {<<2000, 1999>>}

InitFindP ==
    /\ cls = "Reader"
    /\ call \in {c \in QueryCalls : c.output = "dataframe" /\ c.stop # NoneTime}
    /\ pc = "find_p"
    /\ err = ""
    /\ sent = << >>
    /\ qs = NoQuery
    /\ got = << >>
    /\ result = NoDF
    /\ rs = NoRS
    /\ \E nk \in SearchInputs : fp = EnterFindP(nk[1], nk[2])
    /\ ps = NoPS

NextFindP == _find_optimal_p_step \/ _find_optimal_p_return

SpecFindP == InitFindP /\ [][NextFindP]_vars

(***************************************************************************)
(* _query called on its own, with every combination of its arguments.      *)
(***************************************************************************)
Modes == {"csv", "json", "json/compact"}
Limits == {NoLimit, 1, 10}

ExecutorCalls ==
    {[op |-> "_query", output |-> "", start |-> st, stop |-> sp,
      sample_size |-> NoSize, column |-> "", mode |-> md, stream |-> sm,
      limit |-> lm] :
        st \in Starts, sp \in Stops, md \in Modes, sm \in BOOLEAN, lm \in Limits}

\* one call of _query: the request goes out; the client raises or responds
CallExecutor ==
    /\ pc = "call"
    /\ call.op = "_query"
    /\ sent' = Append(sent, _query(cls, LinqQuery, call.start, call.stop,
                                   call.mode, call.stream, call.limit))
    /\ \/ Raise("TransportError")
       \/ pc' = "returned" /\ err' = err
    /\ UNCHANGED <<cls, call, qs, got, result, rs, fp, ps>>

InitExecutor ==
    /\ cls \in Classes
    /\ call \in ExecutorCalls
    /\ pc = "call"
    /\ err = ""
    /\ sent = << >>
    /\ qs = NoQuery
    /\ got = << >>
    /\ result = NoDF
    /\ rs = NoRS
    /\ fp = NoFP
    /\ ps = NoPS

NextExecutor == CallExecutor

SpecExecutor == InitExecutor /\ [][NextExecutor]_vars

(***************************************************************************)
(* Properties.                                                             *)
(***************************************************************************)
\* the requests sent since the current query() call was entered
SentInCall == Len(sent) - qs.base

\* population_size reported by the count query, target_size asked for
PopulationSize == IntOf(rs.table_size.s)
TargetSize == call.sample_size.num

\* Reader.randomSample has read a numeric count and taken the sampling path
OnSamplingPath ==
    /\ cls = "Reader"
    /\ call.op = "randomSample"
    /\ IsNumber(rs.table_size)
    /\ call.sample_size.den = 1
    /\ TargetSize < PopulationSize

\* C1: whenever Reader.randomSample returns on the sampling path
\* (target_size < population_size), the returned table has exactly
\* target_size rows, whatever number of rows the successful sample query
\* returned and however many shortfall attempts preceded it.
C1_ExactlyTargetRows ==
    (OnSamplingPath /\ pc = "returned")
        => (Len(result.data) = TargetSize /\ Len(result.index) = TargetSize)

\* returned at the second attempt, from three fetched rows, with target 2
C1_Witness ==
    /\ OnSamplingPath
    /\ pc = "returned"
    /\ rs.attempts = 2
    /\ TargetSize = 2
    /\ Len(qs.df.data) = 3

\* Reader.randomSample, bounded range, has read a numeric count that is not
\* above the target
OnFullTablePath ==
    /\ cls = "Reader"
    /\ call.op = "randomSample"
    /\ call.stop # NoneTime
    /\ IsNumber(rs.table_size)
    /\ call.sample_size.den = 1
    /\ PopulationSize <= TargetSize

PipelineErrors ==
    {"TransportError", "SchemaError", "QueryError", "SchemaMismatchError",
     "KeyError", "RuntimeError", "ValueError"}

NotPositiveInteger(size) == size.num <= 0 \/ size.den # 1

\* C3: randomSample called with a target_size that is zero, negative or not
\* an integer fails with a validation error, and no request has been sent
\* when it fails.
C3_InvalidTargetRejected ==
    (call.op = "randomSample" /\ NotPositiveInteger(call.sample_size) /\ pc # "call")
        => (pc = "raised" /\ err = "ValidationError" /\ sent = << >>)

\* the four output shapes the specification names
SpecOutputs == {"dict", "list", "namedtuple", "dataframe"}

\* C4: a query() call whose output is not one of dict, list, namedtuple,
\* dataframe is rejected with an error, and no request, probe or main, is
\* sent at any point of that call.
C4_InvalidOutputRejected ==
    (qs.who # "" /\ qs.output \notin SpecOutputs)
        => (pc = "raised" /\ err = "ValidationError" /\ SentInCall = 0)

C4_Witness ==
    /\ call.op = "query"
    /\ call.output = "table"
    /\ qs.output = "table"
    /\ pc = "raised"
    /\ sent = << >>

\* C5: a query() call with output = dataframe and stop = None fails with an
\* error before any request is sent: no probe and no main request is issued
\* in that call.
C5_ContinuousDataframeRejected ==
    (qs.who # "" /\ qs.output = "dataframe" /\ qs.stop = NoneTime)
        => (pc = "raised" /\ err = "ValidationError" /\ SentInCall = 0)

C5_Witness ==
    /\ call.op = "query"
    /\ qs.output = "dataframe"
    /\ qs.stop = NoneTime
    /\ pc = "raised"
    /\ sent = << >>

\* the first line of the main result has been read and passed on as the
\* csv header (it was not rejected as an error envelope)
HeaderRead == qs.pulled >= 1 /\ err # "QueryError"

\* C6: the column-count mismatch error is raised if and only if the number
\* of columns of the csv header differs from the number of entries of the
\* probe-derived schema; when it is raised, neither the header nor any row
\* has been yielded.
C6_MismatchIffCountsDiffer ==
    HeaderRead =>
        /\ (err = "SchemaMismatchError")
              <=> (Len(qs.first.cols) # Cardinality(DOMAIN qs.type_dict))
        /\ err = "SchemaMismatchError"
              => (qs.cols = << >> /\ qs.rows = << >> /\ got = << >>)

\* a two-column header with a repeated name against a two-column schema:
\* the counts agree and the header is yielded
C6_Witness ==
    /\ HeaderRead
    /\ qs.first.cols = <<"a", "a">>
    /\ DOMAIN qs.type_dict = {"a", "b"}
    /\ qs.cols = <<"a", "a">>
    /\ err = ""

\* C7: if the first line of the main result parses as the error envelope
\* and signals a failure status, the decoder fails with a query error and
\* yields nothing: no header and no row reaches the consumer.
C7_ErrorEnvelopeFails ==
    (qs.pulled >= 1 /\ qs.first.json /\ qs.first.status # 0)
        => (pc = "raised" /\ err = "QueryError"
            /\ qs.cols = << >> /\ qs.rows = << >> /\ got = << >>)

\* C8: for a bounded query whose probe and header agree, fully consuming the
\* result yields exactly one row per data line the service returned after
\* the header, in the service's order.
ExpectedRows == [i \in DOMAIN qs.lines |-> StreamRow(qs.cols, qs.type_dict, qs.lines[i])]

C8_OneRowPerLine ==
    (call.op = "query" /\ call.stop # NoneTime /\ pc = "returned")
        => IF call.output = "dataframe"
           THEN /\ Len(result.data) = Len(qs.lines)
                /\ \A i \in DOMAIN qs.lines : \A j \in DOMAIN ExpectedRows[i] :
                      result.data[i][j] = fillna(ExpectedRows[i][j])
           ELSE /\ Len(got) = Len(qs.lines)
                /\ \A i \in DOMAIN qs.lines :
                      got[i] = Project(call.output, qs.cols, ExpectedRows[i])

C8_Witness ==
    /\ call.op = "query"
    /\ call.stop # NoneTime
    /\ pc = "returned"
    /\ Len(qs.lines) = 3
    /\ qs.lines[1] # qs.lines[2]
    /\ qs.lines[2] # qs.lines[3]

\* the requests sent by the first phase of population_sample
FirstPhase == {i \in DOMAIN sent : sent[i].query.where # "in"}
SecondPhase == {i \in DOMAIN sent : sent[i].query.where = "in"}

\* the grouping-column values of the rows of the returned table
ReturnedGroups ==
    {result.data[i][j] : i \in DOMAIN result.data,
                         j \in Positions(result.columns, call.column)}

\* C9: every row of the table population_sample returns has a
\* grouping-column value that is one of the group values the first-phase
\* randomSample returned; the second-phase query is issued only after the
\* first phase has returned, and its membership predicate lists exactly the
\* sampled values.
C9_OnlySampledGroups ==
    (call.op = "population_sample" /\ SecondPhase # {})
        => /\ \A i \in FirstPhase : \A j \in SecondPhase : i < j
           /\ \A j \in SecondPhase :
                 LiteralSet(sent[j].query.literal) = {format(v) : v \in Range(ps.population)}
           /\ pc = "returned" => ReturnedGroups \subseteq Range(ps.population)

\* the upper tail above k - 0.5 under Normal(n*p, sqrt(n*p*(1-p))) is at
\* least 0.99: (loc - x) >= z * scale, with z * z taken as 5.41
NormalTailAtLeast(n, k, p) ==
    /\ ScaleSq(n, p) > 0
    /\ Excess(n, k, p) > 0
    /\ Excess(n, k, p) * Excess(n, k, p)
          >= 5 * (4 * ScaleSq(n, p)) + 41 * ((4 * ScaleSq(n, p)) \div 100)

\* the same tail is not above 0.99, with z * z taken as 5.42
NormalTailBelow(n, k, p) ==
    \/ Excess(n, k, p) <= 0
    \/ Excess(n, k, p) * Excess(n, k, p)
          <= 5 * (4 * ScaleSq(n, p)) + 42 * (((4 * ScaleSq(n, p)) \div 100) + 1)

\* C10: the p that _find_optimal_p returns for population size n and target
\* k < n has a normal tail probability of at least 0.99, and is the smallest
\* such value on the 1.001x grid: it is k/n, or it is one step above a
\* candidate whose tail probability is below the threshold.
C10_SmallestPAboveThreshold ==
    (pc = "rs_attempt" /\ rs.attempts = 0 /\ cls = "Reader")
        => /\ rs.p = fp.p
           /\ NormalTailAtLeast(fp.n, fp.k, fp.p)
           /\ \/ fp.p = (fp.k * PScale) \div fp.n
              \/ /\ fp.p = NextP(fp.prev)
                 /\ fp.prev < fp.p
                 /\ NormalTailBelow(fp.n, fp.k, fp.prev)

C10_Witness ==
    /\ pc = "rs_attempt"
    /\ fp.n = 5
    /\ fp.k = 2
    /\ fp.prev > InitialP(5, 2)
    /\ rs.p = fp.p

\* the requests that carry the sampling predicate, and the count requests
SampleRequests == {i \in DOMAIN sent : sent[i].query.where = "rand"}
CountRequests == {i \in DOMAIN sent : sent[i].query.count}

\* the rows the attempt under way has fetched
FetchedRows == Len(qs.df.data)

\* C11: on the sampling path of Reader.randomSample an attempt that fetched
\* fewer than target_size rows neither returns nor raises but leads to the
\* next attempt, and an attempt that fetched at least target_size rows
\* returns at once; every attempt sends the same query text, with the p
\* that _find_optimal_p returned before the loop, and the count query is
\* sent by the first two requests only.
C11_RetryOnShortfall ==
    /\ [](OnSamplingPath =>
            /\ \A i \in SampleRequests : sent[i].query = sample_query(LinqQuery, fp.p)
            /\ CountRequests = {i \in DOMAIN sent : i <= 2}
            /\ \A i \in DOMAIN sent : i > 2 => i \in SampleRequests
            /\ pc = "returned" => FetchedRows >= TargetSize)
    /\ [][(OnSamplingPath /\ pc = "rs_check")
            => /\ err' = err
               /\ fp' = fp
               /\ rs'.p = rs.p
               /\ IF FetchedRows < TargetSize
                  THEN pc' = "rs_attempt"
                  ELSE pc' = "returned"]_vars
    /\ [][(OnSamplingPath /\ pc = "rs_attempt")
            => /\ pc' = IF call.stop = NoneTime THEN "raised" ELSE "get_types"
               /\ qs'.text = sample_query(LinqQuery, fp.p)
               /\ rs'.attempts = rs.attempts + 1]_vars

\* two attempts in a row fell short of the target of 2
C11_Witness ==
    /\ OnSamplingPath
    /\ pc = "rs_check"
    /\ rs.attempts = 2
    /\ TargetSize = 2
    /\ FetchedRows = 1
    /\ Len(sent) = 6

\* a call of Reader.randomSample
InReaderSample == cls = "Reader" /\ call.op = "randomSample"

\* C12: an error raised inside Reader.randomSample, by the count query or
\* by the probe, the main request or the decoding of any sample attempt,
\* ends the call in the step that raises it: the call is in its raised
\* state exactly when an error is recorded, no step is taken from that
\* state (no request is sent, the loop is not entered again), and a
\* further attempt starts only from an attempt that completed without an
\* error and fetched fewer rows than the target.
C12_ErrorsPropagate ==
    /\ [](InReaderSample => (err # "" <=> pc = "raised"))
    /\ [][InReaderSample => pc # "raised"]_vars
    /\ [][(InReaderSample /\ rs.attempts >= 1 /\ rs'.attempts > rs.attempts)
            => /\ err = ""
               /\ pc = "rs_attempt"
               /\ qs.first.status = 0
               /\ FetchedRows = Len(qs.lines)
               /\ FetchedRows < TargetSize]_vars

\* the second sample attempt failed on an error envelope after a shortfall
C12_Witness ==
    /\ InReaderSample
    /\ pc = "raised"
    /\ err = "QueryError"
    /\ rs.attempts = 2
    /\ Len(sent) = 6

\* the probe of the current query() call was answered, and the answer was
\* not structured data or carried a failure status
ProbeRefused ==
    \/ qs.probe.kind = "text"
    \/ qs.probe.kind = "json" /\ qs.probe.status # 0

\* C13: within one query() call the main request is sent only after the
\* probe request, once the probe's response has been parsed and carries the
\* success status; when the probe's response has a failure status or is
\* not structured data the call fails with a schema error, having sent the
\* probe only.
C13_MainAfterProbe ==
    /\ \A i \in DOMAIN sent :
          (i > qs.base /\ sent[i].mode = "csv")
              => /\ i = qs.base + 2
                 /\ sent[i - 1].mode = "json/compact"
                 /\ sent[i - 1].query = sent[i].query
                 /\ qs.probe.kind = "json"
                 /\ qs.probe.status = 0
                 /\ DOMAIN qs.type_dict = DOMAIN qs.probe.m
    /\ ProbeRefused => (pc = "raised" /\ err = "SchemaError" /\ SentInCall = 1)

\* the probe came back with status 400 and the call failed after one request
C13_Witness ==
    /\ call.op = "query"
    /\ qs.probe.kind = "json"
    /\ qs.probe.status = 400
    /\ pc = "raised"
    /\ Len(sent) = 1

\* C14: a request whose time range is open-ended (stop = None) is sent in
\* streaming mode, whatever streaming flag the caller of _query passed.
C14_ContinuousForcesStreaming ==
    \A i \in DOMAIN sent : sent[i].to = NoneTime => sent[i].stream

\* the lazy output shapes
LazyOutputs == {"list", "dict", "namedtuple"}

\* the lines of the raw stream the decoder has taken: the header, once it
\* was read, and the data lines
LinesPulled == (IF qs.first = NoLine THEN 0 ELSE 1) + Len(qs.lines)

\* C15: with a lazy output shape (list, dict, namedtuple), once query() has
\* returned and the consumer has obtained k rows without an error, the
\* decoder has taken exactly k + 1 lines from the raw stream, the header
\* and k data lines: nothing is read before the consumer asks for it.
C15_PullOnDemand ==
    (call.op = "query" /\ qs.output \in LazyOutputs /\ pc \in {"consume", "returned"})
        => /\ LinesPulled = Len(got) + 1
           /\ pc = "consume" => qs.pulled = Len(got) + 1

\* a continuous query read as dicts: two rows obtained, more may follow
C15_Witness ==
    /\ call.op = "query"
    /\ call.stop = NoneTime
    /\ qs.output = "dict"
    /\ pc = "consume"
    /\ Len(got) = 2
    /\ LinesPulled = 3

\* C16: for every type tag the probe reports, recognized or not, the
\* converter entered in the schema for the column maps the empty string to
\* null, and an unrecognized tag selects the string converter without an
\* error; for the type map of Reader and of API alike.
C16_EmptyStringIsNull ==
    \A c \in DOMAIN qs.type_dict :
        /\ Apply(qs.type_dict[c], "") = PyNone
        /\ qs.probe.m[c] \notin KnownTags
              => (qs.type_dict[c].f = "str" /\ Apply(qs.type_dict[c], "a") = PyStr("a"))

\* C17: every Row the streaming decoder yields has exactly as many values
\* as the schema has columns, its i-th value being the i-th field of the
\* data line converted by the converter of the i-th header column; for
\* every data line, also one with fewer or more fields than the header.
C17_RowMatchesSchema ==
    \A k \in DOMAIN qs.rows :
        /\ Len(qs.rows[k]) = Cardinality(DOMAIN qs.type_dict)
        /\ \A i \in DOMAIN qs.rows[k] :
              qs.rows[k][i] = Apply(qs.type_dict[qs.cols[i]], qs.lines[k][i])


\* the probe requests: the first request of every query() call, which sends
\* two requests unless it fails
ProbeRequests == {i \in DOMAIN sent : i % 2 = 1}

\* C18: the probe request covers a closed window of one second that has
\* the normalized start at one of its ends, has row limit 1, uses the
\* compact JSON mode and is not streaming, whatever the stop of the probed
\* query is, None included.
C18_ProbeWindow ==
    \A i \in ProbeRequests :
        /\ sent[i].to # NoneTime
        /\ sent[i].to - sent[i].from = 1
        /\ _to_unix(call.start) \in {sent[i].from, sent[i].to}
        /\ sent[i].limit = 1
        /\ sent[i].mode = "json/compact"
        /\ ~ sent[i].stream

\* the probe and the main request of a continuous query have both been sent
C18_Witness ==
    /\ call.op = "query"
    /\ call.stop = NoneTime
    /\ Len(sent) = 2
    /\ sent[2].to = NoneTime
    /\ sent[1].query = sent[2].query


\* the strictly increasing maps of 1..k into 1..n: choices of k distinct
\* rows out of n, kept in their order
OrderedChoices(n, k) ==
    {f \in [1..k -> 1..n] : \A i, j \in 1..k : i < j => f[i] < f[j]}

\* C19: the table Reader.randomSample returns on the sampling path is an
\* order-preserving sub-selection of the table fetched by the successful
\* attempt: its rows are distinct rows of the fetched table in the order
\* in which they were fetched, under the same columns, and its index is
\* 0 .. target_size - 1.
C19_OrderPreservingSelection ==
    (OnSamplingPath /\ pc = "returned")
        => /\ result.columns = qs.df.columns
           /\ result.index = [i \in 1..TargetSize |-> i - 1]
           /\ \E f \in OrderedChoices(FetchedRows, TargetSize) :
                 result.data = [i \in 1..TargetSize |-> qs.df.data[f[i]]]

\* the first and the third of three different fetched rows were selected
C19_Witness ==
    /\ OnSamplingPath
    /\ pc = "returned"
    /\ TargetSize = 2
    /\ FetchedRows = 3
    /\ qs.df.data[1] # qs.df.data[2]
    /\ qs.df.data[2] # qs.df.data[3]
    /\ qs.df.data[1] # qs.df.data[3]
    /\ result.data = <<qs.df.data[1], qs.df.data[3]>>


\* C20: throughout the search of _find_optimal_p for 1 <= k < n the
\* candidate p is at least k/n (up to the truncation of k/n to a unit of p)
\* and at most 1, and no iteration decreases it; the p handed to the sample
\* query is therefore in (0, 1] and at least target_size / population_size.
C20_PWithinBounds ==
    /\ [](fp.n > 0 =>
            /\ (fp.p + 1) * fp.n > fp.k * PScale
            /\ fp.p <= PScale
            /\ fp.prev <= fp.p
            /\ pc = "rs_attempt"
                  => /\ rs.p > 0
                     /\ rs.p <= PScale
                     /\ (rs.p + 1) * fp.n > fp.k * PScale)
    /\ [][fp.n > 0 => fp'.p >= fp.p]_vars

\* the search has reached the cap p = 1
C20_Witness ==
    /\ pc = "find_p"
    /\ fp.k < fp.n
    /\ fp.prev < PScale
    /\ fp.p = PScale


\* the current query() call has got past its header: _stream has yielded
HeaderYielded ==
    pc \in {"consume", "to_dataframe", "rs_table_size", "rs_check", "returned"}

\* C21: a query() call that succeeds has sent exactly two requests, the
\* probe and then the main request of the same text; Reader.randomSample
\* probes again on every attempt, so that a call returning after a attempts
\* on the sampling path has sent 2 + 2a requests (count probe, count query,
\* then probe and sample query per attempt), and a call returning on the
\* full-table path has sent 4.
C21_RequestCounts ==
    /\ (qs.who # "" /\ HeaderYielded)
          => /\ SentInCall = 2
             /\ sent[qs.base + 1] = ProbeRequest(cls, qs.text, qs.start)
             /\ sent[qs.base + 2] = MainRequest(cls, qs.text, qs.start, qs.stop)
    /\ (OnSamplingPath /\ pc = "returned")
          => /\ Len(sent) = 2 + 2 * rs.attempts
             /\ \A i \in DOMAIN sent :
                   /\ sent[i].mode = (IF i % 2 = 1 THEN "json/compact" ELSE "csv")
                   /\ sent[i].query.count = (i <= 2)
                   /\ i > 2 => i \in SampleRequests
    /\ (OnFullTablePath /\ pc = "returned")
          => /\ Len(sent) = 4
             /\ \A i \in DOMAIN sent :
                   sent[i].mode = (IF i % 2 = 1 THEN "json/compact" ELSE "csv")

\* returned after two attempts, six requests in all
C21_Witness ==
    /\ OnSamplingPath
    /\ pc = "returned"
    /\ rs.attempts = 2
    /\ Len(sent) = 6
    /\ sent[5].mode = "json/compact"
    /\ sent[6] = MainRequest(cls, sample_query(LinqQuery, rs.p), call.start, call.stop)

====
